---- MODULE Spec2Model ----
(***************************************************************************)
(* Conflict-marker checker: marker classification, patch / content         *)
(* scanning, file eligibility and the pull-request run.                    *)
(* Strings are sequences of one-character strings.                         *)
(***************************************************************************)
EXTENDS Integers, Sequences, FiniteSets, TLC

VARIABLES
    line,        \* LineSpec: the line handed to the marker test
    lineCheck,   \* LineSpec: result of the marker test / classification
    text,        \* ScanSpec: the text handed to a scanner
    scan,        \* ScanSpec: result of the last scan
    elig,        \* EligSpec: a file, the exclusion patterns and shouldCheckFile's answer
    input,       \* Spec: pull-request context, exclude patterns, the source's files
    pc,          \* Spec: position of the run
    page,        \* getFiles: page
    retries,     \* getFiles: retries
    allFiles,    \* getFiles: allFiles
    requests,    \* <<page, "ok">> or <<page, "error", kind>> of every listFiles request
    fetches,     \* file names passed to the injected getFileContent, in call order
    scans,       \* <<file name, "patch" | "content">> of every scan made, in order
    log,         \* core.warning / core.error calls about files and retries
    failed,      \* core.setFailed messages, in call order
    outputs      \* output port calls: values set per output name, lists received

pureVars == <<line, lineCheck, text, scan, elig>>

runVars == <<input, pc, page, retries, allFiles, requests, fetches, scans, log, failed, outputs>>

vars == <<line, lineCheck, text, scan, elig,
          input, pc, page, retries, allFiles, requests, fetches, scans, log, failed,
          outputs>>

NULL == <<"null">>   \* JavaScript null / undefined (never equal to a string of characters)

(***************************************************************************)
(* Bounds of the model                                                     *)
(***************************************************************************)
MaxPieces == 3      \* pieces concatenated into one input line
MaxPrepend == 2     \* whitespace characters prepended to a line
MaxLines == 2       \* lines in a scanned text
MaxPatterns == 1    \* exclusion patterns handed to shouldCheckFile
MaxFiles == 2       \* interesting files at the head of the source's list

(***************************************************************************)
(* JavaScript string primitives                                            *)
(***************************************************************************)
Rep(c, n) == [i \in 1..n |-> c]

WhiteSpace == {" ", "\t", "\r", "\n"}

RECURSIVE trimStart(_)
trimStart(s) ==
    IF s = <<>> THEN <<>>
    ELSE IF Head(s) \in WhiteSpace THEN trimStart(Tail(s))
    ELSE s

RECURSIVE trimEnd(_)
trimEnd(s) ==
    IF s = <<>> THEN <<>>
    ELSE IF s[Len(s)] \in WhiteSpace THEN trimEnd(SubSeq(s, 1, Len(s) - 1))
    ELSE s

trim(s) == trimEnd(trimStart(s))

startsWith(s, p) ==
    /\ Len(p) <= Len(s)
    /\ \A i \in 1..Len(p) : s[i] = p[i]

includes(s, p) ==
    \E k \in 0..(Len(s) - Len(p)) : \A i \in 1..Len(p) : s[k + i] = p[i]

substring1(s) == SubSeq(s, 2, Len(s))

RECURSIVE split(_)
split(s) ==
    IF \A i \in 1..Len(s) : s[i] # "\n" THEN <<s>>
    ELSE LET k == CHOOSE i \in 1..Len(s) :
                    /\ s[i] = "\n"
                    /\ \A j \in 1..(i - 1) : s[j] # "\n"
         IN <<SubSeq(s, 1, k - 1)>> \o split(SubSeq(s, k + 1, Len(s)))

(***************************************************************************)
(* domains/conflictMarker                                                  *)
(***************************************************************************)
MarkerWidth == 7

CONFLICT_MARKERS ==
    << Rep("<", MarkerWidth), Rep(">", MarkerWidth), Rep("=", MarkerWidth) >>

createConflictMarker(lineNumber, content, markerType) ==
    [lineNumber |-> lineNumber, content |-> content, markerType |-> markerType]

(***************************************************************************)
(* infrastructures/pullRequestRepository: marker test and classification   *)
(***************************************************************************)
containsConflictMarker_NoTrim(l) ==
    \E m \in 1..Len(CONFLICT_MARKERS) : startsWith(l, CONFLICT_MARKERS[m])

containsConflictMarker(l) ==
    LET trimmedLine == trimStart(l)
    IN \E m \in 1..Len(CONFLICT_MARKERS) :
            startsWith(trimmedLine, CONFLICT_MARKERS[m])

\* for (const marker of markers) if (trimmedLine.startsWith(marker)) return marker
RECURSIVE FirstMarker(_, _, _)
FirstMarker(markers, trimmedLine, m) ==
    IF m > Len(markers) THEN NULL
    ELSE IF startsWith(trimmedLine, markers[m]) THEN markers[m]
    ELSE FirstMarker(markers, trimmedLine, m + 1)

getMarkerType_NoTrim(l) == FirstMarker(CONFLICT_MARKERS, l, 1)

getMarkerType(l) == FirstMarker(CONFLICT_MARKERS, trimStart(l), 1)

(***************************************************************************)
(* useCases/fileConflictChecker: the same two functions                    *)
(***************************************************************************)
isConflictMarker(l) ==
    LET trimmedLine == trimStart(l)
    IN \E m \in 1..Len(CONFLICT_MARKERS) :
            startsWith(trimmedLine, CONFLICT_MARKERS[m])

detectMarkerType(l) == FirstMarker(CONFLICT_MARKERS, trimStart(l), 1)

(***************************************************************************)
(* domains/file                                                            *)
(***************************************************************************)
createFile(fileName, status, patch, conflicts) ==
    [fileName |-> fileName, status |-> status, patch |-> patch,
     conflicts |-> conflicts]

\* faulty variant: every file counts as conflicted
hasConflicts_Always(file) == TRUE

hasConflicts(file) == Len(file.conflicts) > 0

addConflict(file, conflict) ==
    LET newConflicts == file.conflicts \o <<conflict>>
    IN createFile(file.fileName, file.status, file.patch, newConflicts)

(***************************************************************************)
(* infrastructures/pullRequestRepository: the two scanners                 *)
(***************************************************************************)
UNKNOWN_LINE_NUMBER == 0

PLUS == <<"+">>
PLUS3 == <<"+", "+", "+">>

\* the body of the for loop of getConflictMarkersInPatch, from index i on
RECURSIVE PatchLoop(_, _, _)
PatchLoop(lines, i, conflicts) ==
    IF i > Len(lines) THEN conflicts
    ELSE LET l == lines[i]
             lineContent == substring1(l)
             markerType == getMarkerType(lineContent)
         IN IF /\ startsWith(l, PLUS) /\ ~startsWith(l, PLUS3)
               /\ containsConflictMarker(lineContent)
               /\ markerType # NULL
            THEN PatchLoop(lines, i + 1,
                    Append(conflicts,
                        createConflictMarker(UNKNOWN_LINE_NUMBER,
                                             trim(lineContent), markerType)))
            ELSE PatchLoop(lines, i + 1, conflicts)

\* faulty variant: every line of the patch is looked at, added or not
RECURSIVE PatchLoop_AllLines(_, _, _)
PatchLoop_AllLines(lines, i, conflicts) ==
    IF i > Len(lines) THEN conflicts
    ELSE LET l == lines[i]
             lineContent == substring1(l)
             markerType == getMarkerType(lineContent)
         IN IF /\ containsConflictMarker(lineContent)
               /\ markerType # NULL
            THEN PatchLoop_AllLines(lines, i + 1,
                    Append(conflicts,
                        createConflictMarker(UNKNOWN_LINE_NUMBER,
                                             trim(lineContent), markerType)))
            ELSE PatchLoop_AllLines(lines, i + 1, conflicts)

\* faulty variant: the position of the line in the patch is reported as line number
RECURSIVE PatchLoop_Numbered(_, _, _)
PatchLoop_Numbered(lines, i, conflicts) ==
    IF i > Len(lines) THEN conflicts
    ELSE LET l == lines[i]
             lineContent == substring1(l)
             markerType == getMarkerType(lineContent)
         IN IF /\ startsWith(l, PLUS) /\ ~startsWith(l, PLUS3)
               /\ containsConflictMarker(lineContent)
               /\ markerType # NULL
            THEN PatchLoop_Numbered(lines, i + 1,
                    Append(conflicts,
                        createConflictMarker(i, trim(lineContent), markerType)))
            ELSE PatchLoop_Numbered(lines, i + 1, conflicts)

\* faulty variant: the '+' is left on the added line before it is tested
RECURSIVE PatchLoop_KeepPlus(_, _, _)
PatchLoop_KeepPlus(lines, i, conflicts) ==
    IF i > Len(lines) THEN conflicts
    ELSE LET l == lines[i]
             markerType == getMarkerType(l)
         IN IF /\ startsWith(l, PLUS) /\ ~startsWith(l, PLUS3)
               /\ containsConflictMarker(l)
               /\ markerType # NULL
            THEN PatchLoop_KeepPlus(lines, i + 1,
                    Append(conflicts,
                        createConflictMarker(UNKNOWN_LINE_NUMBER, trim(l), markerType)))
            ELSE PatchLoop_KeepPlus(lines, i + 1, conflicts)

\* faulty variant: the header test looks for '+<' in place of '+++'
RECURSIVE PatchLoop_WrongHeader(_, _, _)
PatchLoop_WrongHeader(lines, i, conflicts) ==
    IF i > Len(lines) THEN conflicts
    ELSE LET l == lines[i]
             lineContent == substring1(l)
             markerType == getMarkerType(lineContent)
         IN IF /\ startsWith(l, PLUS) /\ ~startsWith(l, <<"+", "<">>)
               /\ containsConflictMarker(lineContent)
               /\ markerType # NULL
            THEN PatchLoop_WrongHeader(lines, i + 1,
                    Append(conflicts,
                        createConflictMarker(UNKNOWN_LINE_NUMBER,
                                             trim(lineContent), markerType)))
            ELSE PatchLoop_WrongHeader(lines, i + 1, conflicts)

getConflictMarkersInPatch_AllLines(patch) == PatchLoop_AllLines(split(patch), 1, <<>>)

getConflictMarkersInPatch_Numbered(patch) == PatchLoop_Numbered(split(patch), 1, <<>>)

getConflictMarkersInPatch_KeepPlus(patch) == PatchLoop_KeepPlus(split(patch), 1, <<>>)

getConflictMarkersInPatch_WrongHeader(patch) == PatchLoop_WrongHeader(split(patch), 1, <<>>)

getConflictMarkersInPatch(patch) == PatchLoop(split(patch), 1, <<>>)

\* the body of the for loop of getConflictMarkersInContent, from index i on
RECURSIVE ContentLoop(_, _, _)
ContentLoop(lines, i, conflictMarkers) ==
    IF i > Len(lines) THEN conflictMarkers
    ELSE LET l == lines[i]
             markerType == getMarkerType(l)
         IN IF containsConflictMarker(l) /\ markerType # NULL
            THEN ContentLoop(lines, i + 1,
                    Append(conflictMarkers,
                        createConflictMarker(i, trim(l), markerType)))
            ELSE ContentLoop(lines, i + 1, conflictMarkers)

\* faulty variant: the 0-based loop index is reported as line number
RECURSIVE ContentLoop_ZeroBased(_, _, _)
ContentLoop_ZeroBased(lines, i, conflictMarkers) ==
    IF i > Len(lines) THEN conflictMarkers
    ELSE LET l == lines[i]
             markerType == getMarkerType(l)
         IN IF containsConflictMarker(l) /\ markerType # NULL
            THEN ContentLoop_ZeroBased(lines, i + 1,
                    Append(conflictMarkers,
                        createConflictMarker(i - 1, trim(l), markerType)))
            ELSE ContentLoop_ZeroBased(lines, i + 1, conflictMarkers)

getConflictMarkersInContent_ZeroBased(content) ==
    ContentLoop_ZeroBased(split(content), 1, <<>>)

getConflictMarkersInContent(content) == ContentLoop(split(content), 1, <<>>)

(***************************************************************************)
(* useCases/fileConflictChecker: the scanners that update a File           *)
(***************************************************************************)
RECURSIVE FileLoop(_, _, _)
FileLoop(lines, i, updatedFile) ==
    IF i > Len(lines) THEN updatedFile
    ELSE LET l == lines[i]
             markerType == detectMarkerType(l)
         IN IF isConflictMarker(l) /\ markerType # NULL
            THEN FileLoop(lines, i + 1,
                    addConflict(updatedFile,
                        createConflictMarker(i, trim(l), markerType)))
            ELSE FileLoop(lines, i + 1, updatedFile)

detectConflictsInFile(file, content) == FileLoop(split(content), 1, file)

RECURSIVE FilePatchLoop(_, _, _)
FilePatchLoop(lines, i, updatedFile) ==
    IF i > Len(lines) THEN updatedFile
    ELSE LET l == lines[i]
             lineContent == substring1(l)
             markerType == detectMarkerType(lineContent)
         IN IF /\ startsWith(l, PLUS) /\ ~startsWith(l, PLUS3)
               /\ isConflictMarker(lineContent)
               /\ markerType # NULL
            THEN FilePatchLoop(lines, i + 1,
                    addConflict(updatedFile,
                        createConflictMarker(0, trim(lineContent), markerType)))
            ELSE FilePatchLoop(lines, i + 1, updatedFile)

detectConflictsInPatch(file) ==
    IF file.patch = NULL \/ file.patch = <<>> THEN file
    ELSE FilePatchLoop(split(file.patch), 1, file)

(***************************************************************************)
(* domains/fileStatus                                                      *)
(***************************************************************************)
ST_ADDED == <<"a", "d", "d", "e", "d">>
ST_MODIFIED == <<"m", "o", "d", "i", "f", "i", "e", "d">>
ST_REMOVED == <<"r", "e", "m", "o", "v", "e", "d">>
ST_RENAMED == <<"r", "e", "n", "a", "m", "e", "d">>
ST_COPIED == <<"c", "o", "p", "i", "e", "d">>
ST_CHANGED == <<"c", "h", "a", "n", "g", "e", "d">>
ST_UNCHANGED == <<"u", "n", "c", "h", "a", "n", "g", "e", "d">>

UpperCase == <<"A", "B", "C", "D", "E", "F", "G", "H", "I", "J", "K", "L", "M", "N", "O", "P", "Q", "R", "S", "T", "U", "V", "W", "X", "Y", "Z">>
LowerCaseOf == <<"a", "b", "c", "d", "e", "f", "g", "h", "i", "j", "k", "l", "m", "n", "o", "p", "q", "r", "s", "t", "u", "v", "w", "x", "y", "z">>

toLowerCase(s) ==
    [i \in 1..Len(s) |->
        IF \E k \in 1..Len(UpperCase) : UpperCase[k] = s[i]
        THEN LowerCaseOf[CHOOSE k \in 1..Len(UpperCase) : UpperCase[k] = s[i]]
        ELSE s[i]]

\* faulty variant: the value is compared without lower-casing
fileStatusFromString_CaseSensitive(value) ==
    IF value \in {ST_ADDED, ST_MODIFIED, ST_REMOVED, ST_RENAMED, ST_COPIED,
                  ST_CHANGED, ST_UNCHANGED}
    THEN value
    ELSE ST_UNCHANGED

fileStatusFromString(value) ==
    LET v == toLowerCase(value)
    IN IF v = ST_ADDED THEN ST_ADDED
       ELSE IF v = ST_MODIFIED THEN ST_MODIFIED
       ELSE IF v = ST_REMOVED THEN ST_REMOVED
       ELSE IF v = ST_RENAMED THEN ST_RENAMED
       ELSE IF v = ST_COPIED THEN ST_COPIED
       ELSE IF v = ST_CHANGED THEN ST_CHANGED
       ELSE IF v = ST_UNCHANGED THEN ST_UNCHANGED
       ELSE ST_UNCHANGED

isFileRemoved(status) == status = ST_REMOVED

(***************************************************************************)
(* useCases/pullRequestConflictChecker: eligibility                        *)
(***************************************************************************)
\* faulty variant: only the first exclusion pattern is looked at
shouldCheckFile_FirstPattern(file, excludePatterns) ==
    IF isFileRemoved(file.status) THEN FALSE
    ELSE ~(Len(excludePatterns) > 0 /\ includes(file.fileName, excludePatterns[1]))

\* faulty variant: a removed file is checked like any other
shouldCheckFile_IgnoresStatus(file, excludePatterns) ==
    ~\E k \in 1..Len(excludePatterns) : includes(file.fileName, excludePatterns[k])

\* faulty variant: a pattern excludes only the names that start with it
shouldCheckFile_Prefix(file, excludePatterns) ==
    IF isFileRemoved(file.status) THEN FALSE
    ELSE ~\E k \in 1..Len(excludePatterns) :
            startsWith(file.fileName, excludePatterns[k])

shouldCheckFile(file, excludePatterns) ==
    IF isFileRemoved(file.status) THEN FALSE
    ELSE ~\E k \in 1..Len(excludePatterns) :
            includes(file.fileName, excludePatterns[k])

(***************************************************************************)
(* Input lines: up to MaxPieces pieces, each a run of whitespace, a token, *)
(* a token one character short, or ordinary text.                          *)
(***************************************************************************)
Pieces ==
    { <<" ">>, <<"\t">>, <<"\r">>, <<"a">>, <<"+">>,
      Rep("<", MarkerWidth), Rep("=", MarkerWidth), Rep(">", MarkerWidth),
      Rep("<", MarkerWidth - 1), Rep("=", MarkerWidth - 1) }

RECURSIVE LinesOf(_)
LinesOf(n) ==
    IF n = 0 THEN {<<>>}
    ELSE LET shorter == LinesOf(n - 1)
         IN shorter \cup {p \o l : p \in Pieces, l \in shorter}

Lines == LinesOf(MaxPieces)

(***************************************************************************)
(* LineSpec: the marker test and the classification applied to one line    *)
(***************************************************************************)
NoCheck == [done |-> FALSE]

\* the variables of the specifications that are not running
LineIdle == line = <<>> /\ lineCheck = NoCheck

ScanIdle == text = <<>> /\ scan = NoCheck

EligIdle == elig = NoCheck

RunIdle ==
    /\ input = NoCheck
    /\ pc = "idle"
    /\ page = 0
    /\ retries = 0
    /\ allFiles = <<>>
    /\ requests = <<>>
    /\ fetches = <<>>
    /\ scans = <<>>
    /\ log = <<>>
    /\ failed = <<>>
    /\ outputs = <<>>

CheckOf(l, before, prepended) ==
    [done      |-> TRUE,
     contains  |-> containsConflictMarker(l),
     isMarker  |-> isConflictMarker(l),
     getType   |-> getMarkerType(l),
     detType   |-> detectMarkerType(l),
     before    |-> before,
     prepended |-> prepended]

LineInit ==
    /\ line \in Lines
    /\ lineCheck = NoCheck
    /\ ScanIdle /\ EligIdle /\ RunIdle

CheckLine ==
    /\ ~lineCheck.done
    /\ lineCheck' = CheckOf(line, containsConflictMarker(line), 0)
    /\ UNCHANGED <<line, text, scan, elig, runVars>>

PrependWhitespace ==
    /\ lineCheck.done
    /\ lineCheck.prepended < MaxPrepend
    /\ \E c \in WhiteSpace \ {"\n"} :
        /\ line' = <<c>> \o line
        /\ lineCheck' = CheckOf(line', lineCheck.contains, lineCheck.prepended + 1)
    /\ UNCHANGED <<text, scan, elig, runVars>>

LineNext == CheckLine \/ PrependWhitespace

LineSpec == LineInit /\ [][LineNext]_vars

(***************************************************************************)
(* Scanned texts: up to MaxLines lines joined by line feeds; a line is a   *)
(* diff prefix (none, added, header, removed, context) and a body.         *)
(***************************************************************************)
RECURSIVE Join(_)
Join(ls) ==
    IF ls = <<>> THEN <<>>
    ELSE IF Len(ls) = 1 THEN ls[1]
    ELSE ls[1] \o <<"\n">> \o Join(Tail(ls))

Prefixes == { <<>>, PLUS, PLUS3, <<"-">>, <<" ">>, <<"@", "@">> }

Bodies ==
    { <<>>, <<"a">>,
      Rep("<", MarkerWidth) \o <<" ", "a">>,
      <<"\t">> \o Rep("=", MarkerWidth) \o <<"\r">>,
      Rep(">", MarkerWidth),
      <<"a", " ">> \o Rep("=", MarkerWidth) }

ScanLines == {p \o b : p \in Prefixes, b \in Bodies}

RECURSIVE TextsOf(_)
TextsOf(n) ==
    IF n = 0 THEN {<<>>}
    ELSE LET shorter == TextsOf(n - 1)
         IN ScanLines \cup {l \o <<"\n">> \o t : l \in ScanLines, t \in shorter}

Texts == TextsOf(MaxLines)

(***************************************************************************)
(* ScanSpec: one text scanned as full content or as a patch                *)
(***************************************************************************)
ScanInit ==
    /\ text \in Texts
    /\ scan = NoCheck
    /\ LineIdle /\ EligIdle /\ RunIdle

\* getConflictMarkersInContent(text) and detectConflictsInFile(file, text)
ScanContent ==
    /\ ~scan.done
    /\ scan' = [done   |-> TRUE,
                source |-> "content",
                occ    |-> getConflictMarkersInContent(text),
                file   |-> detectConflictsInFile(
                              createFile(<<"f">>, "modified", NULL, <<>>), text)]
    /\ UNCHANGED <<text, line, lineCheck, elig, runVars>>

\* getConflictMarkersInPatch(text) and detectConflictsInPatch(file with patch text)
ScanPatch ==
    /\ ~scan.done
    /\ scan' = [done   |-> TRUE,
                source |-> "patch",
                occ    |-> getConflictMarkersInPatch(text),
                file   |-> detectConflictsInPatch(
                              createFile(<<"f">>, "modified", text, <<>>))]
    /\ UNCHANGED <<text, line, lineCheck, elig, runVars>>

ScanNext == ScanContent \/ ScanPatch

ScanSpec == ScanInit /\ [][ScanNext]_vars

(***************************************************************************)
(* EligSpec: shouldCheckFile applied to one file and one pattern list      *)
(***************************************************************************)
NAME_TEST == <<"s", "r", "c", "/", "t", "e", "s", "t", "/", "f", "o", "o", ".", "j", "s">>
NAME_SRC == <<"s", "r", "c", "/", "f", "o", "o", ".", "j", "s">>
NAME_A == <<"a", ".", "j", "s">>

FileNames == {NAME_TEST, NAME_SRC, NAME_A}

PAT_TEST == <<"t", "e", "s", "t", "/">>
PAT_UPPER == <<"T", "e", "s", "t", "/">>
PAT_JS == <<".", "j", "s">>
PAT_SRC == <<"s", "r", "c">>

EligPatterns == {PAT_TEST, PAT_UPPER, PAT_JS, PAT_SRC}

RECURSIVE SeqsUpTo(_, _)
SeqsUpTo(S, n) ==
    IF n = 0 THEN {<<>>}
    ELSE LET shorter == SeqsUpTo(S, n - 1)
         IN shorter \cup {<<x>> \o q : x \in S, q \in shorter}

FileStatuses ==
    {ST_ADDED, ST_MODIFIED, ST_REMOVED, ST_RENAMED, ST_COPIED, ST_CHANGED, ST_UNCHANGED}

EligInit ==
    /\ elig \in {[done |-> FALSE, file |-> createFile(n, st, NULL, <<>>), patterns |-> ps] :
                    n \in FileNames, st \in FileStatuses,
                    ps \in SeqsUpTo(EligPatterns, MaxPatterns + 1)}
    /\ LineIdle /\ ScanIdle /\ RunIdle

ShouldCheck ==
    /\ ~elig.done
    /\ elig' = [elig EXCEPT !.done = TRUE] @@
                [result |-> shouldCheckFile(elig.file, elig.patterns)]
    /\ UNCHANGED <<line, lineCheck, text, scan, runVars>>

EligNext == ShouldCheck

EligSpec == EligInit /\ [][EligNext]_vars

(***************************************************************************)
(* infrastructures/fileContentRepository and the source selection of       *)
(* pullRequestRepository                                                   *)
(***************************************************************************)
\* JavaScript truthiness of a string | null | undefined
Truthy(s) == s # NULL /\ s # <<>>

\* getFileContent: the decoded content, or null when the request fails or
\* the answer carries no content; `content` is what the source holds
getFileContent(content) == content

NoScan == "none"

\* faulty variant: the content is fetched first, the patch is the fallback
getConflictMarkers_ContentFirst(fileName, status, patch, content) ==
    IF Truthy(getFileContent(content))
    THEN [conflicts |-> getConflictMarkersInContent(getFileContent(content)),
          fetched |-> TRUE, scanned |-> "content", warned |-> FALSE]
    ELSE IF Truthy(patch)
    THEN [conflicts |-> getConflictMarkersInPatch(patch),
          fetched |-> TRUE, scanned |-> "patch", warned |-> FALSE]
    ELSE [conflicts |-> <<>>, fetched |-> TRUE, scanned |-> NoScan, warned |-> TRUE]

\* faulty variant: a file whose content cannot be fetched is passed over silently
getConflictMarkers_NoWarning(fileName, status, patch, content) ==
    IF Truthy(patch)
    THEN [conflicts |-> getConflictMarkersInPatch(patch),
          fetched |-> FALSE, scanned |-> "patch", warned |-> FALSE]
    ELSE IF Truthy(getFileContent(content))
    THEN [conflicts |-> getConflictMarkersInContent(getFileContent(content)),
          fetched |-> TRUE, scanned |-> "content", warned |-> FALSE]
    ELSE [conflicts |-> <<>>, fetched |-> TRUE, scanned |-> NoScan, warned |-> FALSE]

\* getConflictMarkers with the content fetch injected: the occurrences, and
\* whether the fetch was called, what was scanned, whether a warning was logged
getConflictMarkers(fileName, status, patch, content) ==
    IF Truthy(patch)
    THEN [conflicts |-> getConflictMarkersInPatch(patch),
          fetched |-> FALSE, scanned |-> "patch", warned |-> FALSE]
    ELSE LET fetched == getFileContent(content)
         IN IF Truthy(fetched)
            THEN [conflicts |-> getConflictMarkersInContent(fetched),
                  fetched |-> TRUE, scanned |-> "content", warned |-> FALSE]
            ELSE [conflicts |-> <<>>,
                  fetched |-> TRUE, scanned |-> NoScan, warned |-> TRUE]

(***************************************************************************)
(* The pull-request source: the changed-file records it holds              *)
(***************************************************************************)
perPage == 100
maxRetries == 3

DigitChars == <<"0", "1", "2", "3", "4", "5", "6", "7", "8", "9">>

RECURSIVE Digits(_)
Digits(n) ==
    IF n < 10 THEN <<DigitChars[n + 1]>>
    ELSE Digits(n \div 10) \o <<DigitChars[(n % 10) + 1]>>

SEPARATOR_LINE == Rep("=", MarkerWidth)

\* what a record carries besides name and status: patch, and the content
\* the source would deliver for the file
Payloads ==
    { [patch |-> PLUS \o SEPARATOR_LINE, content |-> <<"a">>],
      [patch |-> <<" ">> \o SEPARATOR_LINE, content |-> SEPARATOR_LINE],
      [patch |-> NULL, content |-> <<"a", "\n">> \o SEPARATOR_LINE],
      [patch |-> NULL, content |-> NULL],
      [patch |-> <<>>, content |-> SEPARATOR_LINE] }

RunStatuses == {ST_MODIFIED, ST_REMOVED}

\* a file name may hold any character of a git path, a comma included
NAME_COMMA == <<"a", ",", "b", ".", "j", "s">>

RunNames == {NAME_TEST, NAME_SRC, NAME_COMMA}

\* a removed file comes with a patch or, without one, with content to fetch
PayloadsOf(st) ==
    IF st = ST_REMOVED
    THEN {pl \in Payloads : pl.patch = PLUS \o SEPARATOR_LINE \/
                                (pl.patch = NULL /\ pl.content # NULL)}
    ELSE Payloads

FileData ==
    UNION {{[filename |-> n, status |-> st, patch |-> pl.patch, content |-> pl.content] :
                n \in RunNames, pl \in PayloadsOf(st)} : st \in RunStatuses}

UniqueNames(fs) ==
    \A i, j \in 1..Len(fs) : i # j => fs[i].filename # fs[j].filename

HeadLists == {fs \in SeqsUpTo(FileData, MaxFiles) : UniqueNames(fs)}

\* files file<k>.js with an added line and no marker, as many as fill a page
FillerFile(k) ==
    [filename |-> <<"f">> \o Digits(k), status |-> ST_MODIFIED,
     patch |-> <<"+", "a">>, content |-> <<"a">>]

\* a full page of filler follows a head of at most one file; a page and a
\* half of filler makes a list of its own
FillerCounts(head) ==
    IF Len(head) = 0 THEN {0, perPage, perPage + (perPage \div 2)}
    ELSE IF Len(head) = 1 THEN {0, perPage}
    ELSE {0}

SourceFiles(head, filler) == head \o [k \in 1..filler |-> FillerFile(k)]

RunPatterns == {PAT_TEST}

\* s.split(','): the parsing of the exclude-patterns input, and the split of
\* the README's workflow ($env:CONFLICTED_FILES -split ',')
RECURSIVE splitComma(_)
splitComma(s) ==
    IF \A i \in 1..Len(s) : s[i] # "," THEN <<s>>
    ELSE LET k == CHOOSE i \in 1..Len(s) :
                    /\ s[i] = ","
                    /\ \A j \in 1..(i - 1) : s[j] # ","
         IN <<SubSeq(s, 1, k - 1)>> \o splitComma(SubSeq(s, k + 1, Len(s)))

\* the exclude-patterns input of a run: not given, one entry, and one entry
\* followed by a comma and a blank
RunPatternInputs ==
    {<<>>} \cup RunPatterns \cup {p \o <<",", " ">> : p \in RunPatterns}

\* faulty variant: entries that are empty after the trim are dropped
parseExcludePatterns_DropEmpty(excludePatterns) ==
    IF excludePatterns # <<>>
    THEN LET NotEmpty(p) == trim(p) # <<>>
             kept == SelectSeq(splitComma(excludePatterns), NotEmpty)
         IN [k \in 1..Len(kept) |-> trim(kept[k])]
    ELSE <<>>

\* run: excludePatterns ? excludePatterns.split(',').map((p) => p.trim()) : []
parseExcludePatterns(excludePatterns) ==
    IF excludePatterns # <<>>
    THEN LET entries == splitComma(excludePatterns)
         IN [k \in 1..Len(entries) |-> trim(entries[k])]
    ELSE <<>>

\* a list with pages of filler is run without an exclude-patterns input
PatternInputsFor(filler) ==
    IF filler = 0 THEN RunPatternInputs ELSE {<<>>}

\* the exclusion lists of the runs
RunPatternLists == {parseExcludePatterns(s) : s \in RunPatternInputs}

\* octokit.rest.pulls.listFiles({per_page, page}).data
ListFilesData(files, pageNo) ==
    LET first == (pageNo - 1) * perPage + 1
        last == IF pageNo * perPage < Len(files) THEN pageNo * perPage ELSE Len(files)
    IN SubSeq(files, first, last)

\* request errors (instances of Error): rate limit (403, 429), another
\* status, and an error without a status property (status 0 stands for none)
RequestErrors ==
    { [hasStatus |-> TRUE, status |-> 403, message |-> <<"Forbidden">>],
      [hasStatus |-> TRUE, status |-> 429, message |-> <<"Too Many Requests">>],
      [hasStatus |-> TRUE, status |-> 500, message |-> <<"Server Error">>],
      [hasStatus |-> FALSE, status |-> 0, message |-> <<"socket hang up">>] }

\* getWaitTime: 'status' in error && (error.status === 403 || error.status === 429)
IsRateLimitError(error) ==
    error.hasStatus /\ (error.status = 403 \/ error.status = 429)

\* `${error}` of an Error
ErrorToString(error) == <<"Error: ">> \o error.message

\* how a rejected request is recorded in the request history
Rejected(pageNo, error) ==
    <<pageNo, "error", IF IsRateLimitError(error) THEN "rateLimit" ELSE "other">>

(***************************************************************************)
(* infrastructures/pullRequestRepository: getFiles                         *)
(***************************************************************************)
\* one iteration of the for loop over response.data: the File created and
\* what getConflictMarkers did for it
ConvertEntry(fileData) ==
    LET fileName == fileData.filename
        status == fileStatusFromString(fileData.status)
        patch == fileData.patch
        found == getConflictMarkers(fileName, status, patch, fileData.content)
    IN [file |-> createFile(fileName, status, patch, found.conflicts),
        fetched |-> found.fetched, scanned |-> found.scanned, warned |-> found.warned]

\* faulty variant: every entry of the page is converted and scanned twice
ConvertPage_Twice(data, acc) ==
    LET done == [i \in 1..(2 * Len(data)) |-> ConvertEntry(data[(i + 1) \div 2])]
        Fetched(e) == e.fetched
        Scanned(e) == e.scanned # NoScan
        Warned(e) == e.warned
        fetchedOf == SelectSeq(done, Fetched)
        scannedOf == SelectSeq(done, Scanned)
        warnedOf == SelectSeq(done, Warned)
    IN [allFiles |-> acc.allFiles \o [i \in 1..Len(done) |-> done[i].file],
        fetches  |-> acc.fetches \o
                        [i \in 1..Len(fetchedOf) |-> fetchedOf[i].file.fileName],
        scans    |-> acc.scans \o
                        [i \in 1..Len(scannedOf) |->
                            <<scannedOf[i].file.fileName, scannedOf[i].scanned>>],
        log      |-> acc.log \o
                        [i \in 1..Len(warnedOf) |->
                            <<"warning", "Could not fetch content for ",
                              warnedOf[i].file.fileName>>]]

\* faulty variant: one occurrence list is shared by all files of the page
ConvertPage_SharedConflicts(data, acc) ==
    LET each == [i \in 1..Len(data) |-> ConvertEntry(data[i])]
        Gathered[i \in 0..Len(data)] ==
            IF i = 0 THEN <<>> ELSE Gathered[i - 1] \o each[i].file.conflicts
        done == [i \in 1..Len(data) |->
                    [each[i] EXCEPT !.file.conflicts = Gathered[i]]]
        Fetched(e) == e.fetched
        Scanned(e) == e.scanned # NoScan
        Warned(e) == e.warned
        fetchedOf == SelectSeq(done, Fetched)
        scannedOf == SelectSeq(done, Scanned)
        warnedOf == SelectSeq(done, Warned)
    IN [allFiles |-> acc.allFiles \o [i \in 1..Len(done) |-> done[i].file],
        fetches  |-> acc.fetches \o
                        [i \in 1..Len(fetchedOf) |-> fetchedOf[i].file.fileName],
        scans    |-> acc.scans \o
                        [i \in 1..Len(scannedOf) |->
                            <<scannedOf[i].file.fileName, scannedOf[i].scanned>>],
        log      |-> acc.log \o
                        [i \in 1..Len(warnedOf) |->
                            <<"warning", "Could not fetch content for ",
                              warnedOf[i].file.fileName>>]]

\* faulty variant: the loop over response.data ends at the first conflicted file
ConvertPage_StopAtConflict(data, acc) ==
    LET Hit(i) == hasConflicts(ConvertEntry(data[i]).file)
        n == IF \E i \in 1..Len(data) : Hit(i)
             THEN CHOOSE i \in 1..Len(data) : Hit(i) /\ \A j \in 1..(i - 1) : ~Hit(j)
             ELSE Len(data)
        done == [i \in 1..n |-> ConvertEntry(data[i])]
        Fetched(e) == e.fetched
        Scanned(e) == e.scanned # NoScan
        Warned(e) == e.warned
        fetchedOf == SelectSeq(done, Fetched)
        scannedOf == SelectSeq(done, Scanned)
        warnedOf == SelectSeq(done, Warned)
    IN [allFiles |-> acc.allFiles \o [i \in 1..Len(done) |-> done[i].file],
        fetches  |-> acc.fetches \o
                        [i \in 1..Len(fetchedOf) |-> fetchedOf[i].file.fileName],
        scans    |-> acc.scans \o
                        [i \in 1..Len(scannedOf) |->
                            <<scannedOf[i].file.fileName, scannedOf[i].scanned>>],
        log      |-> acc.log \o
                        [i \in 1..Len(warnedOf) |->
                            <<"warning", "Could not fetch content for ",
                              warnedOf[i].file.fileName>>]]

\* the for loop over response.data: the lists after all entries of the page
ConvertPage(data, acc) ==
    LET done == [i \in 1..Len(data) |-> ConvertEntry(data[i])]
        Fetched(e) == e.fetched
        Scanned(e) == e.scanned # NoScan
        Warned(e) == e.warned
        fetchedOf == SelectSeq(done, Fetched)
        scannedOf == SelectSeq(done, Scanned)
        warnedOf == SelectSeq(done, Warned)
    IN [allFiles |-> acc.allFiles \o [i \in 1..Len(done) |-> done[i].file],
        fetches  |-> acc.fetches \o
                        [i \in 1..Len(fetchedOf) |-> fetchedOf[i].file.fileName],
        scans    |-> acc.scans \o
                        [i \in 1..Len(scannedOf) |->
                            <<scannedOf[i].file.fileName, scannedOf[i].scanned>>],
        log      |-> acc.log \o
                        [i \in 1..Len(warnedOf) |->
                            <<"warning", "Could not fetch content for ",
                              warnedOf[i].file.fileName>>]]

(***************************************************************************)
(* StatusSpec: one record of response.data whose status is any string,     *)
(* converted by the loop body of getFiles and tested by shouldCheckFile     *)
(***************************************************************************)
RAW_REMOVED_CAPITAL == <<"R", "e", "m", "o", "v", "e", "d">>
RAW_REMOVED_UPPER == <<"R", "E", "M", "O", "V", "E", "D">>
RAW_ADDED_UPPER == <<"A", "D", "D", "E", "D">>
RAW_DELETED == <<"d", "e", "l", "e", "t", "e", "d">>
RAW_REMOVE == <<"r", "e", "m", "o", "v", "e">>
RAW_REMOVED_SPACE == <<"r", "e", "m", "o", "v", "e", "d", " ">>

RawStatuses ==
    FileStatuses \cup
        {RAW_REMOVED_CAPITAL, RAW_REMOVED_UPPER, RAW_ADDED_UPPER, RAW_DELETED,
         RAW_REMOVE, RAW_REMOVED_SPACE, <<>>}

StatusInit ==
    /\ elig \in {[done |-> FALSE,
                  fileData |-> [filename |-> n, status |-> raw,
                                patch |-> pl.patch, content |-> pl.content],
                  patterns |-> ps] :
                    n \in FileNames, raw \in RawStatuses, pl \in Payloads,
                    ps \in SeqsUpTo(EligPatterns, MaxPatterns)}
    /\ LineIdle /\ ScanIdle /\ RunIdle

\* the loop body of getFiles for the record, then shouldCheckFile for its File
ConvertStatus ==
    /\ ~elig.done
    /\ LET entry == ConvertEntry(elig.fileData)
       IN elig' = [elig EXCEPT !.done = TRUE] @@
                    [entry |-> entry,
                     result |-> shouldCheckFile(entry.file, elig.patterns)]
    /\ UNCHANGED <<line, lineCheck, text, scan, runVars>>

StatusNext == ConvertStatus

StatusSpec == StatusInit /\ [][StatusNext]_vars

\* faulty variant: the failure is reported by the catch and once more by its caller
ReportFailure_Twice(message) ==
    /\ failed' = Append(Append(failed, message), message)
    /\ pc' = "done"

\* catch of checkPullRequestForConflicts: output.reportFailure(message)
ReportFailure(message) ==
    /\ failed' = Append(failed, message)
    /\ pc' = "done"

RunInit ==
    /\ \E pr \in BOOLEAN, h \in HeadLists :
        \E n \in FillerCounts(h) : \E s \in PatternInputsFor(n) :
            /\ (~pr => h = <<>> /\ n = 0 /\ s = <<>>)
            /\ input = [pullRequest |-> pr, excludeInput |-> s,
                        excludePatterns |-> parseExcludePatterns(s),
                        files |-> SourceFiles(h, n)]
    /\ pc = "start"
    /\ page = 0
    /\ retries = 0
    /\ allFiles = <<>>
    /\ requests = <<>>
    /\ fetches = <<>>
    /\ scans = <<>>
    /\ log = <<>>
    /\ failed = <<>>
    /\ outputs = [conflicts |-> <<>>, conflictedFiles |-> <<>>, files |-> <<>>]
    /\ LineIdle /\ ScanIdle /\ EligIdle

\* faulty variant: the error of getCurrentPullRequest is swallowed
NoPullRequest_Silent ==
    /\ pc = "start"
    /\ ~input.pullRequest
    /\ pc' = "done"
    /\ UNCHANGED <<pureVars, input, page, retries, allFiles, requests, fetches, scans, log,
                   failed, outputs>>

\* getCurrentPullRequest throws without a pull_request in the payload
NoPullRequest ==
    /\ pc = "start"
    /\ ~input.pullRequest
    /\ ReportFailure(<<"This action can only be run on pull requests">>)
    /\ UNCHANGED <<pureVars, input, page, retries, allFiles, requests, fetches, scans, log,
                   outputs>>

\* getCurrentPullRequest returns; getFiles starts
GetFiles ==
    /\ pc = "start"
    /\ input.pullRequest
    /\ pc' = "listFiles"
    /\ page' = 1
    /\ retries' = 0
    /\ allFiles' = <<>>
    /\ UNCHANGED <<pureVars, input, requests, fetches, scans, log, failed, outputs>>

\* faulty variant: the loop ends on a page of perPage entries as well
ListFilesResponse_StopOnFullPage ==
    /\ pc = "listFiles"
    /\ LET data == ListFilesData(input.files, page)
           acc == ConvertPage(data,
                    [allFiles |-> allFiles, fetches |-> fetches,
                     scans |-> scans, log |-> log])
       IN /\ allFiles' = acc.allFiles
          /\ fetches' = acc.fetches
          /\ scans' = acc.scans
          /\ log' = acc.log
          /\ IF Len(data) <= perPage
             THEN /\ pc' = "check"
                  /\ UNCHANGED <<page, retries>>
             ELSE /\ page' = page + 1
                  /\ retries' = 0
                  /\ pc' = "listFiles"
    /\ requests' = Append(requests, <<page, "ok">>)
    /\ UNCHANGED <<pureVars, input, failed, outputs>>

\* a listFiles request answered: the page is converted and scanned
ListFilesResponse ==
    /\ pc = "listFiles"
    /\ LET data == ListFilesData(input.files, page)
           acc == ConvertPage(data,
                    [allFiles |-> allFiles, fetches |-> fetches,
                     scans |-> scans, log |-> log])
       IN /\ allFiles' = acc.allFiles
          /\ fetches' = acc.fetches
          /\ scans' = acc.scans
          /\ log' = acc.log
          /\ IF Len(data) < perPage
             THEN /\ pc' = "check"
                  /\ UNCHANGED <<page, retries>>
             ELSE /\ page' = page + 1
                  /\ retries' = 0
                  /\ pc' = "listFiles"
    /\ requests' = Append(requests, <<page, "ok">>)
    /\ UNCHANGED <<pureVars, input, failed, outputs>>

\* faulty variant: the retry budget is not looked at before waiting
RateLimited_Unbounded ==
    /\ pc = "listFiles"
    /\ \E error \in RequestErrors :
        /\ IsRateLimitError(error)
        /\ log' = Append(log, <<"warning", "Rate limited. Waiting">>)
        /\ requests' = Append(requests, Rejected(page, error))
    /\ retries' = retries + 1
    /\ UNCHANGED <<pureVars, input, pc, page, allFiles, fetches, scans, failed, outputs>>

\* faulty variant: a wait does not use up the retry budget
RateLimited_Free ==
    /\ pc = "listFiles"
    /\ retries < maxRetries
    /\ \E error \in RequestErrors :
        /\ IsRateLimitError(error)
        /\ log' = Append(log, <<"warning", "Rate limited. Waiting">>)
        /\ requests' = Append(requests, Rejected(page, error))
    /\ UNCHANGED <<pureVars, input, pc, page, retries, allFiles, fetches, scans, failed, outputs>>

\* faulty variant: after the wait the next page is requested
RateLimited_SkipPage ==
    /\ pc = "listFiles"
    /\ retries < maxRetries
    /\ \E error \in RequestErrors :
        /\ IsRateLimitError(error)
        /\ log' = Append(log, <<"warning", "Rate limited. Waiting">>)
        /\ requests' = Append(requests, Rejected(page, error))
    /\ retries' = retries + 1
    /\ page' = page + 1
    /\ UNCHANGED <<pureVars, input, pc, allFiles, fetches, scans, failed, outputs>>

\* a listFiles request rejected with a rate-limit error while retries remain:
\* getWaitTime logs the warning, the wait passes, retries++
RateLimited ==
    /\ pc = "listFiles"
    /\ retries < maxRetries
    /\ \E error \in RequestErrors :
        /\ IsRateLimitError(error)
        /\ log' = Append(log, <<"warning", "Rate limited. Waiting">>)
        /\ requests' = Append(requests, Rejected(page, error))
    /\ retries' = retries + 1
    /\ UNCHANGED <<pureVars, input, pc, page, allFiles, fetches, scans, failed, outputs>>

\* a listFiles request rejected once more after maxRetries retries
RetriesExhausted ==
    /\ pc = "listFiles"
    /\ retries >= maxRetries
    /\ \E error \in RequestErrors :
        /\ ReportFailure(<<"GitHub API request failed after ", maxRetries,
                           " retries: ", ErrorToString(error)>>)
        /\ requests' = Append(requests, Rejected(page, error))
    /\ UNCHANGED <<pureVars, input, page, retries, allFiles, fetches, scans, log, outputs>>

\* faulty variant: every rejected request is waited for and retried
RequestFailed_Retried ==
    /\ pc = "listFiles"
    /\ retries < maxRetries
    /\ \E error \in RequestErrors :
        /\ ~IsRateLimitError(error)
        /\ log' = Append(log, <<"warning", "Rate limited. Waiting">>)
        /\ requests' = Append(requests, Rejected(page, error))
    /\ retries' = retries + 1
    /\ UNCHANGED <<pureVars, input, pc, page, allFiles, fetches, scans, failed, outputs>>

\* a listFiles request rejected with another error: getWaitTime rethrows it
RequestFailed ==
    /\ pc = "listFiles"
    /\ retries < maxRetries
    /\ \E error \in RequestErrors :
        /\ ~IsRateLimitError(error)
        /\ ReportFailure(error.message)
        /\ requests' = Append(requests, Rejected(page, error))
    /\ UNCHANGED <<pureVars, input, page, retries, allFiles, fetches, scans, log, outputs>>

(***************************************************************************)
(* useCases/pullRequestConflictChecker: the files of getFiles are checked  *)
(* and the result is reported through the output port                      *)
(***************************************************************************)
\* core.error for every occurrence of a conflicted file
ConflictErrors(file) ==
    [k \in 1..Len(file.conflicts) |->
        <<"error", "Conflict marker found in ", file.fileName,
          file.conflicts[k].lineNumber, file.conflicts[k].content>>]

\* core.error for every occurrence of every conflicted file, in order
RECURSIVE AllConflictErrors(_)
AllConflictErrors(files) ==
    IF files = <<>> THEN <<>>
    ELSE ConflictErrors(Head(files)) \o AllConflictErrors(Tail(files))

\* for (const file of files): skip the ineligible, collect the conflicted
CheckLoop(files, excludePatterns, acc) ==
    LET Conflicted(file) ==
            shouldCheckFile(file, excludePatterns) /\ hasConflicts(file)
        found == SelectSeq(files, Conflicted)
    IN [conflictedFiles |-> acc.conflictedFiles \o
                                [i \in 1..Len(found) |-> found[i].fileName],
        log |-> acc.log \o AllConflictErrors(found)]

\* files.join(',')
RECURSIVE JoinComma(_)
JoinComma(files) ==
    IF files = <<>> THEN <<>>
    ELSE IF Len(files) = 1 THEN files[1]
    ELSE files[1] \o <<",">> \o JoinComma(Tail(files))

\* found.toString()
BoolToString(found) == IF found THEN "true" ELSE "false"

\* actionOutputAdapter: setConflictsFound(found) then setConflictedFiles(files);
\* files: the lists handed to the port, conflictedFiles: the values it sets
SetOutputs(found, files) ==
    outputs' = [conflicts |-> Append(outputs.conflicts, BoolToString(found)),
                conflictedFiles |-> Append(outputs.conflictedFiles, JoinComma(files)),
                files |-> Append(outputs.files, files)]

\* getFiles has returned: the loop over the files and the output of the results
CheckFiles ==
    /\ pc = "check"
    /\ LET acc == CheckLoop(allFiles, input.excludePatterns,
                            [conflictedFiles |-> <<>>, log |-> log])
           conflictedFiles == acc.conflictedFiles
       IN /\ log' = acc.log
          /\ IF Len(conflictedFiles) > 0
             THEN /\ failed' = Append(failed,
                        <<"Found conflict markers in ", Len(conflictedFiles), " file(s)">>)
                  /\ SetOutputs(TRUE, conflictedFiles)
             ELSE /\ failed' = failed
                  /\ SetOutputs(FALSE, <<>>)
    /\ pc' = "done"
    /\ UNCHANGED <<pureVars, input, page, retries, allFiles, requests, fetches, scans>>

Next ==
    \/ NoPullRequest
    \/ GetFiles
    \/ ListFilesResponse
    \/ RateLimited
    \/ RetriesExhausted
    \/ RequestFailed
    \/ CheckFiles

Spec == RunInit /\ [][Next]_vars

(***************************************************************************)
(* getFiles with an injected getFileContent that may reject.  The          *)
(* repository takes any function of the port's type, and the await of      *)
(* getConflictMarkers is inside the try block of the loop, so a rejection  *)
(* is caught by the catch that handles the failures of listFiles.          *)
(***************************************************************************)
\* the call getFiles(pullRequest) on its own: pc = "check" is its return,
\* pc = "done" with a failure is its throw
GetFilesInit ==
    /\ \E h \in {fs \in HeadLists : \A i \in 1..Len(fs) : fs[i].status = ST_MODIFIED} :
        \E n \in FillerCounts(h) :
            input = [pullRequest |-> TRUE, excludeInput |-> <<>>,
                     excludePatterns |-> parseExcludePatterns(<<>>),
                     files |-> SourceFiles(h, n)]
    /\ pc = "listFiles"
    /\ page = 1
    /\ retries = 0
    /\ allFiles = <<>>
    /\ requests = <<>>
    /\ fetches = <<>>
    /\ scans = <<>>
    /\ log = <<>>
    /\ failed = <<>>
    /\ outputs = [conflicts |-> <<>>, conflictedFiles |-> <<>>, files |-> <<>>]
    /\ LineIdle /\ ScanIdle /\ EligIdle

\* listFiles answered; the for loop over response.data converted and pushed
\* the entries before entry k, and the fetch of entry k rejected: the catch
\* of the loop throws, or waits and asks for the same page again
FetchRejected ==
    /\ pc = "listFiles"
    /\ LET data == ListFilesData(input.files, page)
       IN \E k \in 1..Len(data), error \in RequestErrors :
            /\ ConvertEntry(data[k]).fetched
            /\ LET acc == ConvertPage(SubSeq(data, 1, k - 1),
                            [allFiles |-> allFiles, fetches |-> fetches,
                             scans |-> scans, log |-> log])
               IN /\ allFiles' = acc.allFiles
                  /\ fetches' = Append(acc.fetches, data[k].filename)
                  /\ scans' = acc.scans
                  /\ requests' = Append(requests, <<page, "ok">>)
                  /\ IF retries >= maxRetries
                     THEN /\ ReportFailure(<<"GitHub API request failed after ",
                                             maxRetries, " retries: ",
                                             ErrorToString(error)>>)
                          /\ log' = acc.log
                          /\ UNCHANGED retries
                     ELSE IF IsRateLimitError(error)
                     THEN /\ log' = Append(acc.log,
                                           <<"warning", "Rate limited. Waiting">>)
                          /\ retries' = retries + 1
                          /\ UNCHANGED <<pc, failed>>
                     ELSE /\ ReportFailure(error.message)
                          /\ log' = acc.log
                          /\ UNCHANGED retries
    /\ UNCHANGED <<pureVars, input, page, outputs>>

GetFilesNext ==
    \/ ListFilesResponse
    \/ RateLimited
    \/ RetriesExhausted
    \/ RequestFailed
    \/ FetchRejected

GetFilesSpec == GetFilesInit /\ [][GetFilesNext]_vars

(***************************************************************************)
(* FileSpec: File objects and the arrays their conflicts fields refer to.  *)
(* createFile stores the array it is given; addConflict spreads the        *)
(* receiver's array into a new one.  scan.arrays is the heap of arrays,     *)
(* scan.files the File objects made so far, each with the address of its   *)
(* conflicts array.                                                        *)
(***************************************************************************)
MaxAdds == 2

FileOccurrences ==
    { createConflictMarker(1, SEPARATOR_LINE, SEPARATOR_LINE),
      createConflictMarker(2, Rep("<", MarkerWidth) \o <<" ", "a">>,
                           Rep("<", MarkerWidth)) }

\* hasConflicts of a File object: conflicts.length > 0 on the array it holds
hasConflictsOf(arrays, file) == Len(arrays[file.conflicts]) > 0

\* faulty variant: the occurrence is pushed onto the receiver's own array
addConflictTo_InPlace(arrays, file, conflict) ==
    [arrays |-> [arrays EXCEPT ![file.conflicts] = Append(@, conflict)],
     file   |-> createFile(file.fileName, file.status, file.patch, file.conflicts)]

\* addConflict of a File object: [...conflicts, conflict] is a new array,
\* and createFile makes the new object around it
addConflictTo(arrays, file, conflict) ==
    LET newConflicts == arrays[file.conflicts] \o <<conflict>>
    IN [arrays |-> Append(arrays, newConflicts),
        file   |-> createFile(file.fileName, file.status, file.patch,
                              Len(arrays) + 1)]

FileInit ==
    /\ \E n \in {NAME_SRC, NAME_A}, st \in RunStatuses,
          p \in {NULL, PLUS \o SEPARATOR_LINE},
          cs \in SeqsUpTo(FileOccurrences, 1) :
            scan = [arrays |-> <<cs>>,
                    files  |-> <<createFile(n, st, p, 1)>>,
                    last   |-> NoCheck]
    /\ text = <<>>
    /\ LineIdle /\ EligIdle /\ RunIdle

\* file.addConflict(conflict) called on one of the File objects
AddConflict ==
    /\ Len(scan.files) <= MaxAdds
    /\ \E i \in 1..Len(scan.files), conflict \in FileOccurrences :
        LET made == addConflictTo(scan.arrays, scan.files[i], conflict)
        IN scan' = [arrays |-> made.arrays,
                    files  |-> Append(scan.files, made.file),
                    last   |-> [done |-> TRUE, receiver |-> i,
                                conflict |-> conflict]]
    /\ UNCHANGED <<line, lineCheck, text, elig, runVars>>

FileNext == AddConflict

FileSpec == FileInit /\ [][FileNext]_vars

(***************************************************************************)
(* WaitSpec: getWaitTime applied to one error at one time of the clock.    *)
(* A number is a record: nan for NaN, else its value.                      *)
(***************************************************************************)
NaN == [nan |-> TRUE, value |-> 0]

Num(n) == [nan |-> FALSE, value |-> n]

DigitValue(c) == (CHOOSE k \in 1..10 : DigitChars[k] = c) - 1

\* the value of the longest run of digits that opens s, from index i on
RECURSIVE LeadingDigits(_, _, _)
LeadingDigits(s, i, acc) ==
    IF i > Len(s) \/ ~\E k \in 1..10 : DigitChars[k] = s[i] THEN acc
    ELSE LeadingDigits(s, i + 1, Num(acc.value * 10 + DigitValue(s[i])))

\* parseInt(s): leading white space is skipped, the digits that follow are
\* read, NaN when there is none (the headers carry no sign)
parseInt(s) == LeadingDigits(trimStart(s), 1, NaN)

Times(x, n) == IF x.nan THEN NaN ELSE Num(x.value * n)

Minus(x, n) == IF x.nan THEN NaN ELSE Num(x.value - n)

\* Math.max(x, n)
MathMax(x, n) == IF x.nan THEN NaN ELSE IF x.value >= n THEN x ELSE Num(n)

\* faulty variant: the reset time is looked at before retry-after
getWaitTime_ResetFirst(error, now) ==
    IF IsRateLimitError(error)
    THEN LET retryAfter == error.headers.retryAfter
             resetTime == error.headers.reset
         IN [thrown |-> FALSE,
             waitTime |->
                IF Truthy(resetTime)
                THEN MathMax(Minus(Times(parseInt(resetTime), 1000), now), 1000)
                ELSE IF Truthy(retryAfter)
                THEN Times(parseInt(retryAfter), 1000)
                ELSE Num(60000)]
    ELSE [thrown |-> TRUE, waitTime |-> NaN]

\* getWaitTime(error), with Date.now() = now
getWaitTime(error, now) ==
    IF IsRateLimitError(error)
    THEN LET retryAfter == error.headers.retryAfter
             resetTime == error.headers.reset
         IN [thrown |-> FALSE,
             waitTime |->
                IF Truthy(retryAfter)
                THEN Times(parseInt(retryAfter), 1000)
                ELSE IF Truthy(resetTime)
                THEN MathMax(Minus(Times(parseInt(resetTime), 1000), now), 1000)
                ELSE Num(60000)]
    ELSE [thrown |-> TRUE, waitTime |-> NaN]

\* values of the retry-after header: absent, empty, seconds, not a number
RetryAfterHeaders == {NULL, <<>>, <<"0">>, <<"2">>, <<"3", "0">>, <<"x">>}

\* values of x-ratelimit-reset: absent, empty, epoch seconds, not a number
ResetHeaders ==
    {NULL, <<>>, <<"1", "0", "0">>, <<"1", "0", "1">>, <<"1", "6", "0">>, <<"x">>}

\* Date.now(), in milliseconds
ClockTimes == {99000, 100500, 200000}

WaitErrors ==
    {[hasStatus |-> TRUE, status |-> st,
      headers |-> [retryAfter |-> ra, reset |-> rs]] :
        st \in {403, 429, 500}, ra \in RetryAfterHeaders, rs \in ResetHeaders}

WaitInit ==
    /\ elig \in {[done |-> FALSE, error |-> error, now |-> now] :
                    error \in WaitErrors, now \in ClockTimes}
    /\ LineIdle /\ ScanIdle /\ RunIdle

\* the catch of getFiles calls getWaitTime(error)
GetWaitTime ==
    /\ ~elig.done
    /\ elig' = [elig EXCEPT !.done = TRUE] @@
                    [result |-> getWaitTime(elig.error, elig.now)]
    /\ UNCHANGED <<line, lineCheck, text, scan, runVars>>

WaitNext == GetWaitTime

WaitSpec == WaitInit /\ [][WaitNext]_vars

(***************************************************************************)
(* Reference reading of "starts with a token after leading whitespace":    *)
(* the first non-whitespace character opens a run of seven equal           *)
(* characters, all '<', all '=' or all '>'.                                *)
(***************************************************************************)
TokenChars == {"<", "=", ">"}

FirstInk(l) ==
    IF \A i \in 1..Len(l) : l[i] \in WhiteSpace THEN 0
    ELSE CHOOSE k \in 1..Len(l) :
            /\ l[k] \notin WhiteSpace
            /\ \A j \in 1..(k - 1) : l[j] \in WhiteSpace

TokenAt(l, k, c) ==
    /\ k >= 1
    /\ k + 6 <= Len(l)
    /\ \A j \in k..(k + 6) : l[j] = c

RefMarkerLine(l) == \E c \in TokenChars : TokenAt(l, FirstInk(l), c)

RefKind(l) ==
    IF RefMarkerLine(l)
    THEN Rep(CHOOSE c \in TokenChars : TokenAt(l, FirstInk(l), c), 7)
    ELSE NULL

\* C1: the marker test (containsConflictMarker / isConflictMarker) is true
\* exactly when the line, leading whitespace removed, starts with one of the
\* three 7-character tokens; so an empty line never matches, a token after
\* other non-whitespace text never matches, text after the token is
\* irrelevant, and prepending whitespace never changes the result.
C1_MarkerTest ==
    lineCheck.done =>
        /\ lineCheck.contains = RefMarkerLine(line)
        /\ lineCheck.isMarker = RefMarkerLine(line)
        /\ (line = <<>> => ~lineCheck.contains)
        /\ (FirstInk(line) > 0 /\ line[FirstInk(line)] \notin TokenChars
                => ~lineCheck.contains)
        /\ \A n \in 1..Len(line) :
                RefMarkerLine(SubSeq(line, 1, n)) => lineCheck.contains
        /\ lineCheck.contains = lineCheck.before

\* an indented token followed by text was tested after whitespace was prepended
C1_Witness ==
    /\ lineCheck.done
    /\ lineCheck.prepended > 0
    /\ lineCheck.contains
    /\ Len(trimStart(line)) > 7

\* C2: the marker-kind function (getMarkerType / detectMarkerType) returns a
\* kind exactly when the marker test is true, the kind is the token the
\* stripped line starts with, and the order in which the three tokens are
\* tried does not matter.
C2_Classification ==
    lineCheck.done =>
        /\ (lineCheck.getType # NULL) = lineCheck.contains
        /\ (lineCheck.detType # NULL) = lineCheck.isMarker
        /\ lineCheck.getType = RefKind(line)
        /\ lineCheck.detType = RefKind(line)
        /\ \A p \in Permutations(1..Len(CONFLICT_MARKERS)) :
                FirstMarker([i \in 1..Len(CONFLICT_MARKERS) |-> CONFLICT_MARKERS[p[i]]],
                            trimStart(line), 1) = lineCheck.getType

\* an indented separator line was classified as the separator token
C2_Witness ==
    /\ lineCheck.done
    /\ line # trimStart(line)
    /\ lineCheck.getType = Rep("=", 7)
    /\ lineCheck.detType = Rep("=", 7)

(***************************************************************************)
(* Reference reading of a text as lines: line i lies between the (i-1)-th  *)
(* and the i-th line feed.                                                 *)
(***************************************************************************)
LineFeeds(t) == {i \in 1..Len(t) : t[i] = "\n"}

RefLineCount(t) == Cardinality(LineFeeds(t)) + 1

\* position of the j-th line feed; 0 before the text, Len + 1 after it
FeedAt(t, j) ==
    IF j = 0 THEN 0
    ELSE IF j > Cardinality(LineFeeds(t)) THEN Len(t) + 1
    ELSE CHOOSE i \in LineFeeds(t) :
            Cardinality({h \in LineFeeds(t) : h <= i}) = j

RefLineAt(t, i) == SubSeq(t, FeedAt(t, i - 1) + 1, FeedAt(t, i) - 1)

LastInk(l) ==
    IF \A i \in 1..Len(l) : l[i] \in WhiteSpace THEN 0
    ELSE CHOOSE k \in 1..Len(l) :
            /\ l[k] \notin WhiteSpace
            /\ \A j \in (k + 1)..Len(l) : l[j] \in WhiteSpace

RefTrim(l) == IF FirstInk(l) = 0 THEN <<>> ELSE SubSeq(l, FirstInk(l), LastInk(l))

RefMarkerLines(t) == {i \in 1..RefLineCount(t) : RefMarkerLine(RefLineAt(t, i))}

RefContentScan(t, occ) ==
    /\ Len(occ) = Cardinality(RefMarkerLines(t))
    /\ \A k \in 1..Len(occ) :
        /\ occ[k].lineNumber \in RefMarkerLines(t)
        /\ occ[k].lineNumber >= 1
        /\ occ[k].lineNumber <= RefLineCount(t)
        /\ occ[k].content = RefTrim(RefLineAt(t, occ[k].lineNumber))
        /\ occ[k].markerType = RefKind(RefLineAt(t, occ[k].lineNumber))
    /\ \A k \in 1..(Len(occ) - 1) : occ[k].lineNumber < occ[k + 1].lineNumber
    /\ (t = <<>> => occ = <<>>)

\* C3: scanning full content splits on line feeds and emits exactly one
\* occurrence per marker line and none for other lines: line number i
\* (1-based), the trimmed line and its kind, in increasing line order, a
\* repeated kind emitted each time, and nothing for the empty text.
C3_ContentScan ==
    (scan.done /\ scan.source = "content") =>
        /\ RefContentScan(text, scan.occ)
        /\ RefContentScan(text, scan.file.conflicts)

\* two lines of the same kind were found, the second on line 2
C3_Witness ==
    /\ scan.done /\ scan.source = "content"
    /\ Len(scan.occ) = 2
    /\ scan.occ[1].markerType = scan.occ[2].markerType
    /\ scan.occ[2].lineNumber = 2
    /\ scan.occ[2].content # RefLineAt(text, 2)

RefAdded(l) ==
    /\ Len(l) >= 1 /\ l[1] = "+"
    /\ ~(Len(l) >= 3 /\ l[2] = "+" /\ l[3] = "+")

RefAddedLines(t) == {i \in 1..RefLineCount(t) : RefAdded(RefLineAt(t, i))}

RefAddedMarkerLines(t) ==
    {i \in RefAddedLines(t) :
        RefMarkerLine(SubSeq(RefLineAt(t, i), 2, Len(RefLineAt(t, i))))}

\* C4: scanning a patch only flags added lines ('+' but not '+++'): every
\* occurrence is the content of an added line, there are no more occurrences
\* than added marker lines, and context, removed, hunk-header and '+++'
\* lines produce none whatever they contain.
C4_AddedLinesOnly ==
    (scan.done /\ scan.source = "patch") =>
        /\ \A k \in 1..Len(scan.occ) :
                \E i \in RefAddedLines(text) :
                    scan.occ[k].content = RefTrim(SubSeq(RefLineAt(text, i), 2,
                                                         Len(RefLineAt(text, i))))
        /\ Len(scan.occ) = Cardinality(RefAddedMarkerLines(text))
        /\ (RefAddedLines(text) = {} => scan.occ = <<>>)
        /\ Len(scan.file.conflicts) = Cardinality(RefAddedMarkerLines(text))

\* a patch with a marker on a context, removed or header line and one on an
\* added line was scanned and gave one occurrence
C4_Witness ==
    /\ scan.done /\ scan.source = "patch"
    /\ Len(scan.occ) = 1
    /\ \E i \in 1..RefLineCount(text) :
        /\ ~RefAdded(RefLineAt(text, i))
        /\ RefMarkerLine(SubSeq(RefLineAt(text, i), 2, Len(RefLineAt(text, i))))

\* C5: every occurrence of a patch scan has line number 0, every occurrence
\* of a content scan has line number >= 1.
C5_LineNumberSentinel ==
    scan.done =>
        /\ \A k \in 1..Len(scan.occ) :
                (scan.occ[k].lineNumber = 0) = (scan.source = "patch")
        /\ \A k \in 1..Len(scan.occ) :
                scan.source = "content" => scan.occ[k].lineNumber >= 1
        /\ \A k \in 1..Len(scan.file.conflicts) :
                (scan.file.conflicts[k].lineNumber = 0) = (scan.source = "patch")

\* a patch whose second line is an added marker line was scanned
C5_Witness ==
    /\ scan.done /\ scan.source = "patch"
    /\ Len(scan.occ) >= 1
    /\ RefLineCount(text) >= 2
    /\ ~RefAdded(RefLineAt(text, 1))

KindAndContent(occ) ==
    [k \in 1..Len(occ) |-> <<occ[k].markerType, occ[k].content>>]

\* the added lines of a patch, one '+' removed from each, in order
RECURSIVE AddedBodies(_, _)
AddedBodies(t, i) ==
    IF i > RefLineCount(t) THEN <<>>
    ELSE IF RefAdded(RefLineAt(t, i))
         THEN <<SubSeq(RefLineAt(t, i), 2, Len(RefLineAt(t, i)))>> \o AddedBodies(t, i + 1)
         ELSE AddedBodies(t, i + 1)

\* C6: the (kind, trimmed content) pairs of a patch scan are those of a
\* content scan of the patch's added lines with one leading '+' removed, in
\* the same order.
C6_PatchIsContentOfAddedLines ==
    (scan.done /\ scan.source = "patch") =>
        /\ KindAndContent(scan.occ) =
                KindAndContent(getConflictMarkersInContent(Join(AddedBodies(text, 1))))
        /\ KindAndContent(scan.file.conflicts) = KindAndContent(scan.occ)

\* a patch with an added marker line after a line that is not added
C6_Witness ==
    /\ scan.done /\ scan.source = "patch"
    /\ Len(scan.occ) >= 1
    /\ Len(AddedBodies(text, 1)) < RefLineCount(text)
    /\ scan.occ[1].content # <<>>

\* p occurs in name as a run of consecutive characters, compared exactly
RefSubstring(name, p) ==
    \E start \in 1..(Len(name) + 1) :
        /\ start + Len(p) - 1 <= Len(name)
        /\ SubSeq(name, start, start + Len(p) - 1) = p

RefEligible(fileName, status, patterns) ==
    ~(status = ST_REMOVED \/ \E k \in 1..Len(patterns) : RefSubstring(fileName, patterns[k]))

\* C8: shouldCheckFile is false exactly when the status is 'removed' or some
\* pattern is a case-sensitive substring of the file name; a removed file is
\* ineligible whatever its name and patterns; with ['test/'],
\* 'src/test/foo.js' is ineligible and 'src/foo.js' is eligible.
C8_Eligibility ==
    elig.done =>
        /\ elig.result = RefEligible(elig.file.fileName, elig.file.status, elig.patterns)
        /\ (elig.file.status = ST_REMOVED => ~elig.result)
        /\ (elig.patterns = <<PAT_TEST>> /\ elig.file.status # ST_REMOVED =>
                /\ (elig.file.fileName = NAME_TEST => ~elig.result)
                /\ (elig.file.fileName = NAME_SRC => elig.result))
        /\ (elig.patterns = <<PAT_UPPER>> /\ elig.file.status # ST_REMOVED => elig.result)

\* 'src/test/foo.js', modified, was found ineligible under ['test/']
C8_Witness ==
    /\ elig.done
    /\ elig.file.fileName = NAME_TEST
    /\ elig.file.status = ST_MODIFIED
    /\ elig.patterns = <<PAT_TEST>>
    /\ ~elig.result

Range(q) == {q[i] : i \in 1..Len(q)}

Count(q, x) == Cardinality({i \in 1..Len(q) : q[i] = x})

\* the record carries a patch: a non-empty text (an empty string is no patch)
RefCarriesPatch(f) == f.patch # NULL /\ Len(f.patch) > 0

RefHasContent(f) == f.content # NULL /\ Len(f.content) > 0

RefRunEligible(f) == RefEligible(f.filename, f.status, input.excludePatterns)

\* C9: a file whose status is 'removed' or whose name contains an exclusion
\* pattern is never examined: no content fetch is issued and no scan is
\* performed for it during the run.
C9_IneligibleNeverExamined ==
    \A i \in 1..Len(input.files) :
        LET f == input.files[i]
        IN ~RefRunEligible(f) =>
            /\ f.filename \notin Range(fetches)
            /\ <<f.filename, "patch">> \notin Range(scans)
            /\ <<f.filename, "content">> \notin Range(scans)

\* the scan of the record finds at least one occurrence
RefHasOccurrence(f) ==
    IF RefCarriesPatch(f) THEN RefAddedMarkerLines(f.patch) # {}
    ELSE IF RefHasContent(f) THEN RefMarkerLines(f.content) # {}
    ELSE FALSE

RefConflictedNames ==
    LET Hit(f) == RefRunEligible(f) /\ RefHasOccurrence(f)
        hits == SelectSeq(input.files, Hit)
    IN [i \in 1..Len(hits) |-> hits[i].filename]

RunDelivered == pc = "done" /\ Len(outputs.files) > 0

IsConflictError(entry) == entry[1] = "error" /\ entry[2] = "Conflict marker found in "

RECURSIVE RefCommaList(_)
RefCommaList(names) ==
    IF Len(names) = 0 THEN <<>>
    ELSE IF Len(names) = 1 THEN names[1]
    ELSE RefCommaList(SubSeq(names, 1, Len(names) - 1)) \o <<",">> \o names[Len(names)]

\* every record of the source was converted, and scanned from its own source
RefAllProcessed ==
    /\ Len(allFiles) = Len(input.files)
    /\ \A i \in 1..Len(input.files) :
        /\ allFiles[i].fileName = input.files[i].filename
        /\ hasConflicts(allFiles[i]) = RefHasOccurrence(input.files[i])
        /\ RefCarriesPatch(input.files[i]) =>
                <<input.files[i].filename, "patch">> \in Range(scans)
        /\ ~RefCarriesPatch(input.files[i]) => input.files[i].filename \in Range(fetches)

RefUnavailable(f) == ~RefCarriesPatch(f) /\ ~RefHasContent(f)

RefFetchWarning(f) == <<"warning", "Could not fetch content for ", f.filename>>

RefSameLetter(x, y) ==
    \/ x = y
    \/ \E k \in 1..Len(UpperCase) : {x, y} = {UpperCase[k], LowerCaseOf[k]}

RefSameIgnoringCase(a, b) ==
    /\ Len(a) = Len(b)
    /\ \A i \in 1..Len(a) : RefSameLetter(a[i], b[i])

RefRecognised(raw) == \E k \in FileStatuses : RefSameIgnoringCase(raw, k)

RefStatus(raw) ==
    IF RefRecognised(raw)
    THEN CHOOSE k \in FileStatuses : RefSameIgnoringCase(raw, k)
    ELSE ST_UNCHANGED

\* the record with status 'modified' in place of its own
AsModified(fileData) == [fileData EXCEPT !.status = ST_MODIFIED]

\* C14, read letter by letter: fileStatusFromString maps each of the seven known status
\* strings to itself and every other string to 'unchanged', so a file whose
\* status string is not one of the seven is eligible unless excluded by name.
C14_EveryOtherStringUnchanged ==
    elig.done =>
        /\ elig.entry.file.status =
                (IF elig.fileData.status \in FileStatuses
                 THEN elig.fileData.status ELSE ST_UNCHANGED)
        /\ elig.fileData.status \notin FileStatuses =>
                elig.result =
                    RefEligible(elig.fileData.filename, ST_MODIFIED, elig.patterns)

\* C14: status normalisation never fails: fileStatusFromString maps
\* each string that equals one of the seven known status strings up to
\* letter case to that status (each known string to itself) and every other
\* string to 'unchanged', so a file with an unrecognised status is eligible
\* unless excluded by name, and is scanned like a modified file.
C14_StatusNormalisation ==
    elig.done =>
        /\ elig.entry.file.status \in FileStatuses
        /\ elig.entry.file.status = RefStatus(elig.fileData.status)
        /\ elig.fileData.status \in FileStatuses =>
                elig.entry.file.status = elig.fileData.status
        /\ ~RefRecognised(elig.fileData.status) =>
            /\ elig.entry.file.status = ST_UNCHANGED
            /\ elig.result =
                    RefEligible(elig.fileData.filename, ST_MODIFIED, elig.patterns)
            /\ elig.entry.file.conflicts =
                    ConvertEntry(AsModified(elig.fileData)).file.conflicts
            /\ elig.entry.scanned = ConvertEntry(AsModified(elig.fileData)).scanned
            /\ hasConflicts(elig.entry.file) = RefHasOccurrence(elig.fileData)

\* a record with status 'deleted' and a marker on an added line became an
\* eligible 'unchanged' file with an occurrence
C14_Witness ==
    /\ elig.done
    /\ elig.fileData.status = RAW_DELETED
    /\ elig.entry.file.status = ST_UNCHANGED
    /\ elig.result
    /\ elig.entry.scanned = "patch"
    /\ hasConflicts(elig.entry.file)

NotOnPullRequest == <<"This action can only be run on pull requests">>

\* C15: a run outside a pull-request context (no pull_request in the event
\* payload) ends by reporting failure, once, with the message 'This action
\* can only be run on pull requests': that is the only step such a run
\* takes; it requests nothing and sets no output.
C15_NoPullRequestFails ==
    /\ [](~input.pullRequest =>
            /\ pc \in {"start", "done"}
            /\ requests = <<>>
            /\ outputs.files = <<>>
            /\ pc = "done" => failed = <<NotOnPullRequest>>)
    /\ [][(pc = "start" /\ ~input.pullRequest) =>
            (pc' = "done" /\ failed' = <<NotOnPullRequest>>)]_vars

\* the run without pull request has ended with the failure
C15_Witness ==
    /\ ~input.pullRequest
    /\ pc = "done"
    /\ failed = <<NotOnPullRequest>>

\* what a record is scanned from: its patch, else its content, else nothing
RefSourceText(f) ==
    IF RefCarriesPatch(f) THEN <<"patch", f.patch>>
    ELSE IF RefHasContent(f) THEN <<"content", f.content>>
    ELSE <<"none">>

\* C16: scanning has no hidden state: within a run, two files with the same
\* patch (or the same content) get identical occurrence sequences wherever
\* they stand in the list, and the occurrences of a file are those of a scan
\* of its own text alone, whatever files were scanned before it.
C16_NoHiddenState ==
    /\ \A t \in {RefSourceText(input.files[i]) : i \in 1..Len(allFiles)} :
        Cardinality({allFiles[i].conflicts :
                        i \in {k \in 1..Len(allFiles) :
                                    RefSourceText(input.files[k]) = t}}) = 1
    /\ \A i \in 1..Len(allFiles) :
        /\ hasConflicts(allFiles[i]) = RefHasOccurrence(input.files[i])
        /\ allFiles[i].conflicts =
                getConflictMarkers(input.files[i].filename, ST_MODIFIED,
                                   input.files[i].patch, input.files[i].content).conflicts

\* the same patch with a marker was scanned twice in one run, the second
\* time after the first: both files hold one occurrence
C16_Witness ==
    /\ Len(allFiles) = 2
    /\ input.files[1].patch = input.files[2].patch
    /\ RefCarriesPatch(input.files[1])
    /\ Len(allFiles[1].conflicts) = 1
    /\ allFiles[2].conflicts = allFiles[1].conflicts

\* the lists with the same patterns as ps: its permutations, and the lists
\* with entries repeated or repetitions removed
SamePatterns(ps) ==
    {qs \in SeqsUpTo(EligPatterns, MaxPatterns + 2) : Range(qs) = Range(ps)}

\* C17: eligibility does not depend on the order of the exclusion patterns:
\* shouldCheckFile gives the same result for every permutation of the list,
\* and for the list with duplicates removed (or entries repeated).
C17_PatternOrderIrrelevant ==
    elig.done =>
        \A qs \in SamePatterns(elig.patterns) :
            shouldCheckFile(elig.file, qs) = elig.result

\* 'src/test/foo.js' was found ineligible under ['Test/', 'test/']: the
\* pattern that matches stands last in the list
C17_Witness ==
    /\ elig.done
    /\ elig.file.fileName = NAME_TEST
    /\ elig.file.status = ST_MODIFIED
    /\ elig.patterns = <<PAT_UPPER, PAT_TEST>>
    /\ ~elig.result
    /\ ~shouldCheckFile(elig.file, <<PAT_TEST, PAT_UPPER>>)

IsPrefix(a, b) == Len(a) <= Len(b) /\ SubSeq(b, 1, Len(a)) = a

\* the first k lines of a text
FirstLines(t, k) == Join(SubSeq(split(t), 1, k))

\* the occurrences found in the first k lines of the record's text open the
\* occurrence list of the whole text, for every k
RefGrowsByAppending(f, occ) ==
    IF RefCarriesPatch(f)
    THEN \A k \in 1..Len(split(f.patch)) :
            IsPrefix(getConflictMarkersInPatch(FirstLines(f.patch, k)), occ)
    ELSE IF RefHasContent(f)
    THEN \A k \in 1..Len(split(f.content)) :
            IsPrefix(getConflictMarkersInContent(FirstLines(f.content, k)), occ)
    ELSE occ = <<>>

C19_CommaListRoundTrip ==
    RunDelivered =>
        /\ outputs.conflicts[1] \in {"true", "false"}
        /\ outputs.conflictedFiles[1] = RefCommaList(outputs.files[1])
        /\ outputs.conflicts[1] = "true" =>
                splitComma(outputs.conflictedFiles[1]) = outputs.files[1]

\* the number of the first page with fewer than perPage entries
RefLastPage == Len(input.files) \div perPage + 1

\* the number of entries on page p of the source's list
RefPageLength(p) ==
    IF p * perPage <= Len(input.files) THEN perPage
    ELSE IF (p - 1) * perPage >= Len(input.files) THEN 0
    ELSE Len(input.files) - (p - 1) * perPage

RefAnswered == {k \in 1..Len(requests) : requests[k][2] = "ok"}

\* C20: the file list is fetched by requesting pages 1, 2, 3, ...; after an
\* answered page of exactly perPage = 100 entries the next page number is
\* requested (a rejected request is followed by the same page number), and
\* fetching stops after the first page with fewer than 100 entries. The
\* result holds the entries of all pages in order (150 files arrive with
\* exactly 2 answered requests, pages 1 and 2), and no page number above the
\* first short page is ever requested.
C20_Pagination ==
    /\ requests # <<>> => requests[1][1] = 1
    /\ \A k \in 1..(Len(requests) - 1) :
        /\ requests[k][2] = "ok" =>
            /\ RefPageLength(requests[k][1]) = perPage
            /\ requests[k + 1][1] = requests[k][1] + 1
        /\ requests[k][2] = "error" => requests[k + 1][1] = requests[k][1]
    /\ \A k \in 1..Len(requests) : requests[k][1] \in 1..RefLastPage
    /\ Len(allFiles) =
            (IF Cardinality(RefAnswered) * perPage < Len(input.files)
             THEN Cardinality(RefAnswered) * perPage ELSE Len(input.files))
    /\ (pc = "check" \/ RunDelivered) =>
        /\ Cardinality(RefAnswered) = RefLastPage
        /\ requests[Len(requests)] = <<RefLastPage, "ok">>
        /\ Len(allFiles) = Len(input.files)
        /\ \A i \in 1..Len(input.files) : allFiles[i].fileName = input.files[i].filename
    /\ (pc = "listFiles" /\ requests # <<>> /\ requests[Len(requests)][2] = "ok") =>
            page = requests[Len(requests)][1] + 1

\* 150 files were returned after exactly two requests, pages 1 and 2
C20_Witness ==
    /\ pc = "check"
    /\ Len(input.files) = perPage + (perPage \div 2)
    /\ requests = << <<1, "ok">>, <<2, "ok">> >>
    /\ Len(allFiles) = perPage + (perPage \div 2)

RateLimitWarning == <<"warning", "Rate limited. Waiting">>

\* the rejected requests after which the fetch went on
RefRetried ==
    {k \in 1..Len(requests) :
        requests[k][2] = "error" /\ (k < Len(requests) \/ pc = "listFiles")}

RECURSIVE RefTrailingErrors(_)
RefTrailingErrors(q) ==
    IF q = <<>> THEN 0
    ELSE IF q[Len(q)][2] # "error" THEN 0
    ELSE 1 + RefTrailingErrors(SubSeq(q, 1, Len(q) - 1))

RefRequestsOfPage(p) == Cardinality({k \in 1..Len(requests) : requests[k][1] = p})

\* C22: the retry counter of the file-list loop counts the consecutive
\* failed requests; it is set to 0 after each processed full page, and a
\* failure that occurs when the counter equals maxRetries = 3 makes the
\* fetch throw an 'after 3 retries' error instead of waiting again: no page
\* is requested more than 4 times in a row and the counter never exceeds 3.
C22_RetryBound ==
    /\ [](/\ retries \in 0..maxRetries
          /\ maxRetries = 3
          /\ pc = "listFiles" => retries = RefTrailingErrors(requests)
          /\ \A p \in 1..RefLastPage : RefRequestsOfPage(p) <= maxRetries + 1
          /\ RefTrailingErrors(requests) <= maxRetries + 1
          /\ RefTrailingErrors(requests) = maxRetries + 1 =>
                /\ pc = "done"
                /\ Len(failed) = 1
                /\ SubSeq(failed[1], 1, 3) =
                        <<"GitHub API request failed after ", 3, " retries: ">>
                /\ Count(log, RateLimitWarning) >= maxRetries)
    /\ [][(pc = "listFiles" /\ pc' = "listFiles" /\ page' = page + 1) => retries' = 0]_vars

\* four requests for page 1 were rejected in a row: three waits, then the
\* 'after 3 retries' failure
C22_Witness ==
    /\ pc = "done"
    /\ Len(requests) = 4
    /\ \A k \in 1..4 : requests[k] = <<1, "error", "rateLimit">>
    /\ retries = 3
    /\ failed = << <<"GitHub API request failed after ", 3, " retries: ",
                     <<"Error: ", "Too Many Requests">> >> >>

\* the messages of the request errors that are not rate-limit errors: a
\* status other than 403 and 429, or no status at all
RefOtherMessages ==
    {error.message : error \in {x \in RequestErrors :
                                    ~(x.hasStatus /\ x.status \in {403, 429})}}

\* C23: a rejected file-list request whose error is not a rate-limit error
\* (status other than 403 and 429, or no status) is never retried: with the
\* retry budget not exhausted the fetch rejects with that error, without a
\* wait and without another request, and the run reports failure with the
\* message of that error.
C23_OtherErrorNotRetried ==
    /\ [](\A k \in 1..Len(requests) :
            (requests[k][2] = "error" /\ requests[k][3] = "other") =>
                /\ k = Len(requests)
                /\ pc = "done"
                /\ Len(failed) = 1
                /\ outputs.conflicts = <<>> /\ outputs.conflictedFiles = <<>>
                /\ RefTrailingErrors(requests) <= maxRetries =>
                        failed[1] \in RefOtherMessages)
    /\ [][(pc = "listFiles" /\ retries < maxRetries
            /\ Len(requests') > Len(requests)
            /\ requests'[Len(requests')] = <<page, "error", "other">>) =>
                /\ pc' = "done"
                /\ failed' \in {<<m>> : m \in RefOtherMessages}
                /\ log' = log /\ retries' = retries /\ page' = page
                /\ outputs' = outputs]_vars

\* a request answered 500 after one rate-limit retry: the run fails with
\* 'Server Error', one warning, two requests
C23_Witness ==
    /\ pc = "done"
    /\ requests = << <<1, "error", "rateLimit">>, <<1, "error", "other">> >>
    /\ failed = << <<"Server Error">> >>
    /\ log = <<RateLimitWarning>>
    /\ outputs.conflicts = <<>>

RefSourceNames == [i \in 1..Len(input.files) |-> input.files[i].filename]

RefReturnedNames == [i \in 1..Len(allFiles) |-> allFiles[i].fileName]

\* C24: getFiles returns every changed-file record of the source exactly
\* once and in source order, whatever requests failed and were retried, a
\* failure raised by the injected content fetch while a page is converted
\* included: no file is duplicated and none is lost.
C24_EveryFileOnceInOrder ==
    (pc = "check" /\ failed = <<>>) => RefReturnedNames = RefSourceNames

\* what is left of a run at most: a request per remaining page, maxRetries
\* waits per page, the check of the files and the report
RefStepsLeft(p, r) == 2 + (RefLastPage - p) * (maxRetries + 2) + (maxRetries - r)

RefRunMeasure ==
    IF pc = "done" THEN 0
    ELSE IF pc = "check" THEN 1
    ELSE IF pc = "listFiles" THEN RefStepsLeft(page, retries)
    ELSE RefStepsLeft(0, 0)

RefOutcomeReported ==
    \/ Len(failed) = 1
    \/ Len(outputs.conflicts) = 1 /\ Len(outputs.conflictedFiles) = 1

RefConflictsOf(state, i) == state.arrays[state.files[i].conflicts]

\* C26: addConflict is a pure update. The File it returns has the
\* receiver's conflicts followed by the new occurrence and the receiver's
\* fileName, status and patch; the conflicts and the hasConflicts() result
\* of the receiver, and of every File made before, are as they were; and
\* for every File hasConflicts() is true exactly when its conflicts list is
\* not empty.
C26_AddConflictIsPure ==
    /\ [](\A i \in 1..Len(scan.files) :
            hasConflictsOf(scan.arrays, scan.files[i]) = (RefConflictsOf(scan, i) # <<>>))
    /\ [][LET new == Len(scan'.files)
              receiver == scan'.last.receiver
          IN /\ new = Len(scan.files) + 1
             /\ RefConflictsOf(scan', new) =
                    Append(RefConflictsOf(scan, receiver), scan'.last.conflict)
             /\ scan'.files[new].fileName = scan.files[receiver].fileName
             /\ scan'.files[new].status = scan.files[receiver].status
             /\ scan'.files[new].patch = scan.files[receiver].patch
             /\ \A i \in 1..Len(scan.files) :
                    /\ scan'.files[i] = scan.files[i]
                    /\ RefConflictsOf(scan', i) = RefConflictsOf(scan, i)
                    /\ hasConflictsOf(scan'.arrays, scan'.files[i]) =
                            hasConflictsOf(scan.arrays, scan.files[i])]_vars

\* an occurrence was added to a File without conflicts: the new File has
\* one, the receiver still has none
C26_Witness ==
    /\ Len(scan.files) = 2
    /\ scan.last.receiver = 1
    /\ ~hasConflictsOf(scan.arrays, scan.files[1])
    /\ hasConflictsOf(scan.arrays, scan.files[2])
    /\ RefConflictsOf(scan, 2) = <<scan.last.conflict>>

\* the exclude-patterns input has an entry between commas (or before the
\* first, or after the last) that is empty or made of whitespace only
RefBlankEntry(s) ==
    /\ s # <<>>
    /\ \E a \in 0..Len(s) : \E b \in a..Len(s) :
        /\ a = 0 \/ s[a] = ","
        /\ b = Len(s) \/ s[b + 1] = ","
        /\ \A i \in (a + 1)..b : s[i] \in {" ", "\t", "\r", "\n"}

\* the names of the files that are not removed and whose scan finds an
\* occurrence, in the source's order
RefNamesNotRemoved ==
    LET Hit(f) == RefStatus(f.status) # ST_REMOVED /\ RefHasOccurrence(f)
        hits == SelectSeq(input.files, Hit)
    IN [i \in 1..Len(hits) |-> hits[i].filename]

RefAborted ==
    /\ pc = "done"
    /\ ~input.pullRequest \/ (requests # <<>> /\ requests[Len(requests)][2] = "error")

\* the run ended after getFiles returned the list
RefObtainedList ==
    /\ pc = "done"
    /\ requests # <<>>
    /\ requests[Len(requests)][2] = "ok"

RECURSIVE RefPow10(_)
RefPow10(n) == IF n = 0 THEN 1 ELSE 10 * RefPow10(n - 1)

RefDigit(c) ==
    CASE c = "0" -> 0 [] c = "1" -> 1 [] c = "2" -> 2 [] c = "3" -> 3 [] c = "4" -> 4
      [] c = "5" -> 5 [] c = "6" -> 6 [] c = "7" -> 7 [] c = "8" -> 8 [] c = "9" -> 9

\* the header is a number of seconds written in decimal digits
RefIsSeconds(h) ==
    /\ h # NULL
    /\ h # <<>>
    /\ \A i \in 1..Len(h) :
        h[i] \in {"0", "1", "2", "3", "4", "5", "6", "7", "8", "9"}

RECURSIVE RefSumDigits(_, _)
RefSumDigits(h, i) ==
    IF i > Len(h) THEN 0
    ELSE RefDigit(h[i]) * RefPow10(Len(h) - i) + RefSumDigits(h, i + 1)

RefSeconds(h) == RefSumDigits(h, 1)

\* the header is not there, or is there without a value
RefNoHeader(h) == h = NULL \/ h = <<>>

\* C29: the wait before a rate-limited request is retried is chosen by
\* precedence: with a retry-after header it is that number of seconds times
\* 1000 ms, also when x-ratelimit-reset is present; otherwise, with
\* x-ratelimit-reset, it is reset * 1000 - now, but never less than 1000 ms;
\* otherwise it is 60000 ms.
C29_WaitTimePrecedence ==
    (elig.done /\ elig.error.status \in {403, 429}) =>
        LET retryAfter == elig.error.headers.retryAfter
            reset == elig.error.headers.reset
            untilReset == RefSeconds(reset) * 1000 - elig.now
        IN /\ ~elig.result.thrown
           /\ RefIsSeconds(retryAfter) =>
                elig.result.waitTime = [nan |-> FALSE, value |-> RefSeconds(retryAfter) * 1000]
           /\ (RefNoHeader(retryAfter) /\ RefIsSeconds(reset)) =>
                /\ ~elig.result.waitTime.nan
                /\ elig.result.waitTime.value >= 1000
                /\ elig.result.waitTime.value =
                        IF untilReset > 1000 THEN untilReset ELSE 1000
           /\ (RefNoHeader(retryAfter) /\ RefNoHeader(reset)) =>
                elig.result.waitTime = [nan |-> FALSE, value |-> 60000]

\* retry-after is 2 and x-ratelimit-reset is 61 seconds ahead: the wait is
\* 2000 ms
C29_Witness ==
    /\ elig.done
    /\ elig.error.status = 429
    /\ elig.error.headers = [retryAfter |-> <<"2">>, reset |-> <<"1", "6", "0">>]
    /\ elig.now = 99000
    /\ elig.result.waitTime = [nan |-> FALSE, value |-> 2000]

\* the lines of a patch that start with '+', '+++' lines included
RefPlusLines(t) ==
    {i \in 1..RefLineCount(t) : Len(RefLineAt(t, i)) >= 1 /\ RefLineAt(t, i)[1] = "+"}

\* the line without its first character
RefRest(t, i) == SubSeq(RefLineAt(t, i), 2, Len(RefLineAt(t, i)))

RefPlusMarkerLines(t) == {i \in RefPlusLines(t) : RefMarkerLine(RefRest(t, i))}

\* the k-th smallest element of a set of line numbers
RefNth(S, k) == CHOOSE i \in S : Cardinality({j \in S : j <= i}) = k

\* the scan of a patch under the rule 'the line starts with +' alone
RefPlusOnlyScan(t) ==
    [k \in 1..Cardinality(RefPlusMarkerLines(t)) |->
        LET i == RefNth(RefPlusMarkerLines(t), k)
        IN [lineNumber |-> 0, content |-> RefTrim(RefRest(t, i)),
            markerType |-> RefKind(RefRest(t, i))]]

\* C30: the '+++' exclusion of the patch scan never hides a marker: for
\* every patch the scan with the rule 'starts with + and not with +++' gives
\* the occurrences of the scan with the rule 'starts with +' alone, because
\* what is left of a '+++' line after one '+' is removed starts with '+' and
\* is no marker line.
C30_HeaderExclusionHidesNothing ==
    (scan.done /\ scan.source = "patch") =>
        /\ scan.occ = RefPlusOnlyScan(text)
        /\ RefPlusMarkerLines(text) = RefAddedMarkerLines(text)
        /\ \A i \in RefPlusLines(text) \ RefAddedLines(text) :
                /\ RefRest(text, i)[1] = "+"
                /\ ~RefMarkerLine(RefRest(text, i))

\* a patch with a '+++' line that carries a marker token and an added marker
\* line was scanned: one occurrence
C30_Witness ==
    /\ scan.done /\ scan.source = "patch"
    /\ Len(scan.occ) = 1
    /\ \E i \in RefPlusLines(text) :
        /\ i \notin RefAddedLines(text)
        /\ RefMarkerLine(SubSeq(RefLineAt(text, i), 4, Len(RefLineAt(text, i))))
    /\ RefAddedMarkerLines(text) # {}

====
